---- MODULE Spec2Model ----
(***************************************************************************)
(* NYC Nexus: the derivation pipeline of page.tsx (buildNycGraph: entity   *)
(* construction, proximity edges, degree centrality), the Page component    *)
(* that publishes its result, and the ranking memo Page.queryResults.       *)
(*                                                                          *)
(* Coordinates.  The code works on WGS84 degrees in IEEE doubles.  Here a   *)
(* coordinate is an integer number of units of 1/R radian (R = 6 371 000,   *)
(* so one unit of arc is one metre), taken within a few kilometres of       *)
(* (0, 0).  For such points the haversine formula of the code evaluates to  *)
(* sqrt(dLat^2 + dLon^2) * (1 - e) with 0 <= e < 10^-7, and haversine below *)
(* returns that value rounded up to a whole metre.  Against the integer     *)
(* thresholds of the code the comparison d <= T is the same for the value   *)
(* and for its ceiling.                                                     *)
(***************************************************************************)
EXTENDS Integers, Sequences, FiniteSets, TLC

\* ------------------------------------------------------------------ types.ts

NodeTypeHotel == "Hotel"
NodeTypeSubway == "Subway"
NodeTypeAttraction == "Attraction"
NodeType == {NodeTypeHotel, NodeTypeSubway, NodeTypeAttraction}

EdgeLabel == {"TRANSIT_ACCESS", "WALKABLE_TO"}

NODE_COLORS ==
  [t \in NodeType |->
     IF t = NodeTypeHotel THEN "#3B82F6"
     ELSE IF t = NodeTypeSubway THEN "#10B981" ELSE "#F59E0B"]

EDGE_COLORS ==
  [l \in EdgeLabel |->
     IF l = "TRANSIT_ACCESS" THEN "rgba(16,185,129,0.50)" ELSE "rgba(245,158,11,0.50)"]

QueryMode == {"transit", "culture", "balanced", "connected", "hub", "corridor"}

\* ------------------------------------------------------- program constants

TransitRadius == 300
WalkRadius == 500
ResultCap == 5

\* ------------------------------------------------------------------ helpers

\* An optional field of a JS object: {} when the field is absent (undefined or
\* null), {v} when it holds v.
Field(obj, f) == IF f \in DOMAIN obj THEN {obj[f]} ELSE {}

\* a ?? b on optional values
Coalesce(a, b) == IF a # {} THEN a ELSE b

\* el.center?.lat, el.center?.lon
CenterField(el, f) == IF "center" \in DOMAIN el THEN Field(el.center, f) ELSE {}

The(s) == CHOOSE v \in s : TRUE

\* The least r in lo..hi with r * r >= n (lo..hi always holds one).
RECURSIVE CeilSqrtIn(_, _, _)
CeilSqrtIn(n, lo, hi) ==
  IF lo >= hi THEN lo
  ELSE LET mid == (lo + hi) \div 2
       IN IF mid * mid >= n THEN CeilSqrtIn(n, lo, mid) ELSE CeilSqrtIn(n, mid + 1, hi)

\* 46340 is the largest number whose square is a 32-bit integer.
CeilSqrt(n) == CeilSqrtIn(n, 0, IF n < 46340 THEN n ELSE 46340)

\* The doubles that are not finite.  res.json() gives Infinity for a number
\* of the body that is too large for a double (1e999); arithmetic on it gives
\* NaN.  Both are numbers to the code, so here they are two integers far
\* outside the coordinates of the model.
Infinity == 1073741823
NaN == Infinity + 1
IsFinite(x) == x # Infinity /\ x # NaN

\* a <= b and a < b on doubles: false when either side is NaN
LessEq(a, b) == a # NaN /\ b # NaN /\ a <= b
Less(a, b) == a # NaN /\ b # NaN /\ a < b

\* ------------------------------------------------------ ontology utilities

\* Great-circle distance in metres, rounded up to a whole metre (see the note
\* on coordinates at the head of the module).  With an argument that is not
\* finite, dLat or dLon is infinite or NaN, its sine is NaN and so is the result.
haversine(lat1, lon1, lat2, lon2) ==
  IF \E x \in {lat1, lon1, lat2, lon2} : ~IsFinite(x) THEN NaN
  ELSE LET dLat == lat2 - lat1
           dLon == lon2 - lon1
       IN CeilSqrt(dLat * dLat + dLon * dLon)

HasTag(tags, k, v) == k \in DOMAIN tags /\ tags[k] = v

\* the subway rule tried before the hotel rule
classifyOsmElementSubwayFirst(tags) ==
  IF HasTag(tags, "railway", "station") /\ HasTag(tags, "station", "subway") THEN NodeTypeSubway
  ELSE IF HasTag(tags, "tourism", "hotel") THEN NodeTypeHotel
       ELSE NodeTypeAttraction

classifyOsmElement(tags) ==
  IF HasTag(tags, "tourism", "hotel") THEN NodeTypeHotel
  ELSE IF HasTag(tags, "railway", "station") /\ HasTag(tags, "station", "subway")
       THEN NodeTypeSubway
       ELSE NodeTypeAttraction

\* ------------------------------------------------------------ buildNycGraph

\* raw.elements ?? []
Elements(raw) == IF "elements" \in DOMAIN raw THEN raw.elements ELSE <<>>

\* el.lat ?? el.center?.lat
ResolveLat(el) == Coalesce(Field(el, "lat"), CenterField(el, "lat"))

\* el.lon ?? el.center?.lon
ResolveLon(el) == Coalesce(Field(el, "lon"), CenterField(el, "lon"))

\* the key without the kind
ElementKeyNumberOnly(el) == ToString(el.id)

\* `${el.type}-${el.id}`
ElementKey(el) == el.type \o "-" \o ToString(el.id)

\* el.tags ?? {}
TagsOf(el) == IF "tags" \in DOMAIN el THEN el.tags ELSE <<>>

\* the English name preferred to the primary name
NameOfEnglishFirst(el) ==
  The(Coalesce(Field(TagsOf(el), "name:en"),
               Coalesce(Field(TagsOf(el), "name"), {"OSM " \o ToString(el.id)})))

\* tags.name ?? tags['name:en'] ?? `OSM ${el.id}`
NameOf(el) ==
  The(Coalesce(Field(TagsOf(el), "name"),
               Coalesce(Field(TagsOf(el), "name:en"), {"OSM " \o ToString(el.id)})))

MakeNode(el) ==
  LET type == classifyOsmElement(TagsOf(el))
  IN [id |-> ElementKey(el), name |-> NameOf(el), type |-> type,
      lat |-> The(ResolveLat(el)), lon |-> The(ResolveLon(el)),
      color |-> NODE_COLORS[type], degree |-> 0]

\* The node of a key that was seen replaced by the node of the later record.
ReplaceNode(nodes, node) ==
  [k \in 1..Len(nodes) |-> IF nodes[k].id = node.id THEN node ELSE nodes[k]]

RECURSIVE BuildNodesLastWins(_, _, _, _)
BuildNodesLastWins(elements, i, seenIds, nodes) ==
  IF i > Len(elements) THEN nodes
  ELSE LET el == elements[i]
       IN IF ResolveLat(el) = {} \/ ResolveLon(el) = {}
          THEN BuildNodesLastWins(elements, i + 1, seenIds, nodes)
          ELSE IF ElementKey(el) \in seenIds
               THEN BuildNodesLastWins(elements, i + 1, seenIds, ReplaceNode(nodes, MakeNode(el)))
               ELSE BuildNodesLastWins(elements, i + 1, seenIds \cup {ElementKey(el)},
                                       Append(nodes, MakeNode(el)))

\* The key looked up and added before the coordinate is tested.
RECURSIVE BuildNodesReserving(_, _, _, _)
BuildNodesReserving(elements, i, seenIds, nodes) ==
  IF i > Len(elements) THEN nodes
  ELSE LET el == elements[i]
       IN IF ElementKey(el) \in seenIds
          THEN BuildNodesReserving(elements, i + 1, seenIds, nodes)
          ELSE IF ResolveLat(el) = {} \/ ResolveLon(el) = {}
               THEN BuildNodesReserving(elements, i + 1, seenIds \cup {ElementKey(el)}, nodes)
               ELSE BuildNodesReserving(elements, i + 1, seenIds \cup {ElementKey(el)},
                                        Append(nodes, MakeNode(el)))

\* The loop without the test on seenIds.
RECURSIVE BuildNodesNoDedupe(_, _, _, _)
BuildNodesNoDedupe(elements, i, seenIds, nodes) ==
  IF i > Len(elements) THEN nodes
  ELSE LET el == elements[i]
       IN IF ResolveLat(el) = {} \/ ResolveLon(el) = {}
          THEN BuildNodesNoDedupe(elements, i + 1, seenIds, nodes)
          ELSE BuildNodesNoDedupe(elements, i + 1, seenIds \cup {ElementKey(el)},
                                  Append(nodes, MakeNode(el)))

\* The loop over the elements: seenIds and nodes after the elements from i on.
RECURSIVE BuildNodes(_, _, _, _)
BuildNodes(elements, i, seenIds, nodes) ==
  IF i > Len(elements) THEN nodes
  ELSE LET el == elements[i]
       IN IF ResolveLat(el) = {} \/ ResolveLon(el) = {}
          THEN BuildNodes(elements, i + 1, seenIds, nodes)
          ELSE IF ElementKey(el) \in seenIds
               THEN BuildNodes(elements, i + 1, seenIds, nodes)
               ELSE BuildNodes(elements, i + 1, seenIds \cup {ElementKey(el)},
                               Append(nodes, MakeNode(el)))

OfType(nodes, t) == SelectSeq(nodes, LAMBDA n : n.type = t)

WithinTransitStrict(hotel, subway) ==
  Less(haversine(hotel.lat, hotel.lon, subway.lat, subway.lon), TransitRadius)

WithinTransit(hotel, subway) ==
  LessEq(haversine(hotel.lat, hotel.lon, subway.lat, subway.lon), TransitRadius)

WithinWalkStrict(hotel, attraction) ==
  Less(haversine(hotel.lat, hotel.lon, attraction.lat, attraction.lon), WalkRadius)

WithinWalk(hotel, attraction) ==
  LessEq(haversine(hotel.lat, hotel.lon, attraction.lat, attraction.lon), WalkRadius)

\* the target named by the name of the node
MakeLinkByName(hotel, other, label) ==
  [source |-> hotel.id, target |-> other.name, label |-> label, color |-> EDGE_COLORS[label]]

MakeLinkReversed(hotel, other, label) ==
  [source |-> other.id, target |-> hotel.id, label |-> label, color |-> EDGE_COLORS[label]]

MakeLink(hotel, other, label) ==
  [source |-> hotel.id, target |-> other.id, label |-> label, color |-> EDGE_COLORS[label]]

\* The inner loop over the subways for one hotel.
TransitLinks(hotel, subways) ==
  LET near == SelectSeq(subways, LAMBDA s : WithinTransit(hotel, s))
  IN [k \in 1..Len(near) |-> MakeLink(hotel, near[k], "TRANSIT_ACCESS")]

\* The inner loop over the attractions for one hotel.
WalkLinks(hotel, attractions) ==
  LET near == SelectSeq(attractions, LAMBDA a : WithinWalk(hotel, a))
  IN [k \in 1..Len(near) |-> MakeLink(hotel, near[k], "WALKABLE_TO")]

\* The outer loop over the hotels, from hotel i on.
RECURSIVE BuildLinks(_, _, _, _)
BuildLinks(hotels, i, subways, attractions) ==
  IF i > Len(hotels) THEN <<>>
  ELSE TransitLinks(hotels[i], subways) \o WalkLinks(hotels[i], attractions)
       \o BuildLinks(hotels, i + 1, subways, attractions)

\* degreeMap.get(id) ?? 0
DegreeGet(degreeMap, id) == IF id \in DOMAIN degreeMap THEN degreeMap[id] ELSE 0

DegreeBumpOverwrite(degreeMap, id) == (id :> 1) @@ degreeMap

\* degreeMap.set(id, (degreeMap.get(id) ?? 0) + 1)
DegreeBump(degreeMap, id) == (id :> (DegreeGet(degreeMap, id) + 1)) @@ degreeMap

\* The loop counting the source of each link only.
RECURSIVE BuildDegreeMapSourceOnly(_, _, _)
BuildDegreeMapSourceOnly(links, i, degreeMap) ==
  IF i > Len(links) THEN degreeMap
  ELSE LET next == DegreeBump(degreeMap, links[i].source)
       IN IF DOMAIN next = {} THEN next ELSE BuildDegreeMapSourceOnly(links, i + 1, next)

\* The loop over the links that fills degreeMap, from link i on.  (The test on
\* DOMAIN only makes the map of this iteration a value before the next one
\* starts; a map that was just written to is never empty.)
RECURSIVE BuildDegreeMap(_, _, _)
BuildDegreeMap(links, i, degreeMap) ==
  IF i > Len(links) THEN degreeMap
  ELSE LET next == DegreeBump(DegreeBump(degreeMap, links[i].source), links[i].target)
       IN IF DOMAIN next = {} THEN next ELSE BuildDegreeMap(links, i + 1, next)

\* the count added to the degree the node has
WriteDegreesAccumulate(nodes, degreeMap) ==
  [k \in 1..Len(nodes) |->
     [nodes[k] EXCEPT !.degree = nodes[k].degree + DegreeGet(degreeMap, nodes[k].id)]]

\* for (const node of nodes) node.degree = degreeMap.get(node.id) ?? 0
WriteDegrees(nodes, degreeMap) ==
  [k \in 1..Len(nodes) |-> [nodes[k] EXCEPT !.degree = DegreeGet(degreeMap, nodes[k].id)]]

\* The part of buildNycGraph that follows a successful response.
buildNycGraph(raw) ==
  LET nodes == BuildNodes(Elements(raw), 1, {}, <<>>)
      links == BuildLinks(OfType(nodes, NodeTypeHotel), 1,
                          OfType(nodes, NodeTypeSubway), OfType(nodes, NodeTypeAttraction))
  IN [nodes |-> WriteDegrees(nodes, BuildDegreeMap(links, 1, <<>>)), links |-> links]

\* if (!res.ok) throw new Error(`Overpass API error: HTTP ${res.status} ...`)
HttpError(status) == "Overpass API error: HTTP " \o ToString(status)

\* ------------------------------------------------------- Page.queryResults

\* rawLinks.filter((l) => (l.source === id || l.target === id) && l.label === label).length
CountIncident(links, id, label) ==
  Len(SelectSeq(links, LAMBDA l : (l.source = id \/ l.target = id) /\ l.label = label))

\* hub scored on the stations only
ScoreHubTransitOnly(mode, t, c) ==
  IF mode = "transit" THEN t * 2 + c
  ELSE IF mode = "culture" THEN c * 2 + t
  ELSE IF mode = "balanced" THEN t + c
  ELSE IF mode = "connected" THEN (IF t > 0 /\ c > 0 THEN t + c ELSE 0)
  ELSE IF mode = "hub" THEN t * 3
  ELSE c * 3 + t

\* balanced scored with the weights of transit
ScoreBalancedAsTransit(mode, t, c) ==
  IF mode = "transit" THEN t * 2 + c
  ELSE IF mode = "culture" THEN c * 2 + t
  ELSE IF mode = "balanced" THEN t * 2 + c
  ELSE IF mode = "connected" THEN (IF t > 0 /\ c > 0 THEN t + c ELSE 0)
  ELSE IF mode = "hub" THEN t * 3 + c
  ELSE c * 3 + t

\* culture scored with the weights of transit
ScoreCultureAsTransit(mode, t, c) ==
  IF mode = "transit" THEN t * 2 + c
  ELSE IF mode = "culture" THEN t * 2 + c
  ELSE IF mode = "balanced" THEN t + c
  ELSE IF mode = "connected" THEN (IF t > 0 /\ c > 0 THEN t + c ELSE 0)
  ELSE IF mode = "hub" THEN t * 3 + c
  ELSE c * 3 + t

\* connected gated by || in place of &&
ScoreConnectedEither(mode, t, c) ==
  IF mode = "transit" THEN t * 2 + c
  ELSE IF mode = "culture" THEN c * 2 + t
  ELSE IF mode = "balanced" THEN t + c
  ELSE IF mode = "connected" THEN (IF t > 0 \/ c > 0 THEN t + c ELSE 0)
  ELSE IF mode = "hub" THEN t * 3 + c
  ELSE c * 3 + t

Score(mode, t, c) ==
  IF mode = "transit" THEN t * 2 + c
  ELSE IF mode = "culture" THEN c * 2 + t
  ELSE IF mode = "balanced" THEN t + c
  ELSE IF mode = "connected" THEN (IF t > 0 /\ c > 0 THEN t + c ELSE 0)
  ELSE IF mode = "hub" THEN t * 3 + c
  ELSE c * 3 + t

\* The callback of .map: one row per hotel.
ScoreRow(hotel, links, mode) ==
  LET t == CountIncident(links, hotel.id, "TRANSIT_ACCESS")
      c == CountIncident(links, hotel.id, "WALKABLE_TO")
  IN [hotel |-> hotel, transitCount |-> t, cultureCount |-> c, score |-> Score(mode, t, c)]

CompareAscending(a, b) == a.score - b.score

\* The comparator of .sort: negative when a comes first.
Compare(a, b) == b.score - a.score

\* r put before the rows it is equal to
RECURSIVE InsertRowBeforeEquals(_, _)
InsertRowBeforeEquals(sorted, r) ==
  IF sorted = <<>> THEN <<r>>
  ELSE IF Compare(sorted[Len(sorted)], r) < 0 THEN Append(sorted, r)
       ELSE Append(InsertRowBeforeEquals(SubSeq(sorted, 1, Len(sorted) - 1), r),
                   sorted[Len(sorted)])

\* r put into a sorted sequence behind every row that does not come after it.
RECURSIVE InsertRow(_, _)
InsertRow(sorted, r) ==
  IF sorted = <<>> THEN <<r>>
  ELSE IF Compare(sorted[Len(sorted)], r) <= 0 THEN Append(sorted, r)
       ELSE Append(InsertRow(SubSeq(sorted, 1, Len(sorted) - 1), r), sorted[Len(sorted)])

\* Array.prototype.sort with Compare: a stable sort (ECMAScript 2019).
RECURSIVE SortRows(_)
SortRows(rows) ==
  IF rows = <<>> THEN <<>>
  ELSE InsertRow(SortRows(SubSeq(rows, 1, Len(rows) - 1)), rows[Len(rows)])

SliceOneMore(s, n) == SubSeq(s, 1, IF Len(s) < n + 1 THEN Len(s) ELSE n + 1)

\* .slice(0, n)
Slice(s, n) == SubSeq(s, 1, IF Len(s) < n THEN Len(s) ELSE n)

\* the early return listing the hotels unranked
QueryResultsForListingAll(nodes, links, mode) ==
  LET hotels == OfType(nodes, NodeTypeHotel)
      rows == [k \in 1..Len(hotels) |-> ScoreRow(hotels[k], links, mode)]
  IN IF Len(links) = 0 \/ Len(nodes) = 0 THEN Slice(rows, ResultCap)
     ELSE Slice(SortRows(SelectSeq(rows, LAMBDA r : r.score > 0)), ResultCap)

\* The body of the queryResults memo, for a given mode.
QueryResultsFor(nodes, links, mode) ==
  IF Len(links) = 0 \/ Len(nodes) = 0 THEN <<>>
  ELSE LET hotels == OfType(nodes, NodeTypeHotel)
           rows == [k \in 1..Len(hotels) |-> ScoreRow(hotels[k], links, mode)]
       IN Slice(SortRows(SelectSeq(rows, LAMBDA r : r.score > 0)), ResultCap)

\* ------------------------------------------------------------------- Page
\* The state of the Page component.  selected and dims are presentation state
\* that neither the derivation nor the ranking reads; they are left out.

VARIABLES
  response,   \* the body the upstream service answers with when it answers OK
  promise,    \* the promise returned by buildNycGraph()
  pc,         \* the position of the mount effect's promise chain
  graphData, rawLinks, loading, error, view, activeTab, queryMode

vars == <<response, promise, pc, graphData, rawLinks, loading, error, view, activeTab, queryMode>>

\* the ranking reading the edges that are rendered
queryResultsFromRendered == QueryResultsFor(graphData.nodes, graphData.links, queryMode)

queryResults == QueryResultsFor(graphData.nodes, rawLinks, queryMode)

\* A reference to the node object with that id, as ForceGraph2D stores it in
\* link.source and link.target.
NodeRef(id) == "&" \o id
IsRef(v) == v \notin {graphData.nodes[k].id : k \in 1..Len(graphData.nodes)}

\* useState initial values, and the pending fetch of the mount effect.
InitPage ==
  /\ promise = [state |-> "pending"]
  /\ pc = "fetch"
  /\ graphData = [nodes |-> <<>>, links |-> <<>>]
  /\ rawLinks = <<>>
  /\ loading = TRUE
  /\ error = {}
  /\ view = "graph"
  /\ activeTab = "viz"
  /\ queryMode = "balanced"

\* res.ok: buildNycGraph runs to its end and its promise is fulfilled.
FetchOk ==
  /\ pc = "fetch"
  /\ promise' = [state |-> "fulfilled", value |-> buildNycGraph(response)]
  /\ pc' = "then"
  /\ UNCHANGED <<response, graphData, rawLinks, loading, error, view, activeTab, queryMode>>

\* !res.ok: buildNycGraph throws and its promise is rejected.
FetchFail ==
  /\ pc = "fetch"
  /\ \E status \in {429, 504} : promise' = [state |-> "rejected", reason |-> HttpError(status)]
  /\ pc' = "catch"
  /\ UNCHANGED <<response, graphData, rawLinks, loading, error, view, activeTab, queryMode>>

\* the callback without setGraphData
ThenCallbackLinksOnly ==
  /\ pc = "then"
  /\ rawLinks' = promise.value.links
  /\ pc' = "finally"
  /\ UNCHANGED <<response, promise, graphData, loading, error, view, activeTab, queryMode>>

\* .then((data) => { setRawLinks(copy of data.links); setGraphData(data) })
ThenCallback ==
  /\ pc = "then"
  /\ rawLinks' = [k \in 1..Len(promise.value.links) |->
                    [source |-> promise.value.links[k].source,
                     target |-> promise.value.links[k].target,
                     label |-> promise.value.links[k].label,
                     color |-> promise.value.links[k].color]]
  /\ graphData' = promise.value
  /\ pc' = "finally"
  /\ UNCHANGED <<response, promise, loading, error, view, activeTab, queryMode>>

\* the rejection swallowed
CatchCallbackSilent ==
  /\ pc = "catch"
  /\ pc' = "finally"
  /\ UNCHANGED <<response, promise, graphData, rawLinks, loading, error, view, activeTab, queryMode>>

\* .catch((e) => setError(e.message))
CatchCallback ==
  /\ pc = "catch"
  /\ error' = {promise.reason}
  /\ pc' = "finally"
  /\ UNCHANGED <<response, promise, graphData, rawLinks, loading, view, activeTab, queryMode>>

\* the callback that leaves loading as it is
FinallyCallbackNoop ==
  /\ pc = "finally"
  /\ pc' = "done"
  /\ UNCHANGED <<response, promise, graphData, rawLinks, loading, error, view, activeTab, queryMode>>

\* .finally(() => setLoading(false))
FinallyCallback ==
  /\ pc = "finally"
  /\ loading' = FALSE
  /\ pc' = "done"
  /\ UNCHANGED <<response, promise, graphData, rawLinks, error, view, activeTab, queryMode>>

\* User events are tasks: none runs between the reactions of the promise chain.
Idle == pc \in {"fetch", "done"}

\* onClick={() => setActiveTab(key)}
SetActiveTab(key) ==
  /\ Idle
  /\ activeTab' = key
  /\ UNCHANGED <<response, promise, pc, graphData, rawLinks, loading, error, view, queryMode>>

\* onClick={() => setView(v)}, rendered on the viz tab only
SetView(v) ==
  /\ Idle
  /\ activeTab = "viz"
  /\ view' = v
  /\ UNCHANGED <<response, promise, pc, graphData, rawLinks, loading, error, activeTab, queryMode>>

\* the ranking sorting the nodes of graphData in place
SetQueryModeSortingNodes(key) ==
  /\ Idle
  /\ activeTab = "query"
  /\ ~loading
  /\ Len(queryResults) > 0
  /\ queryMode' = key
  /\ graphData' = [graphData EXCEPT !.nodes =
                     LET rows == SortRows([k \in 1..Len(graphData.nodes) |->
                                             ScoreRow(graphData.nodes[k], rawLinks, key)])
                     IN [k \in 1..Len(rows) |-> rows[k].hotel]]
  /\ UNCHANGED <<response, promise, pc, rawLinks, loading, error, view, activeTab>>

\* onClick={() => setQueryMode(key)}: the mode buttons are rendered on the
\* query tab under !loading && queryResults.length > 0
SetQueryMode(key) ==
  /\ Idle
  /\ activeTab = "query"
  /\ ~loading
  /\ Len(queryResults) > 0
  /\ queryMode' = key
  /\ UNCHANGED <<response, promise, pc, graphData, rawLinks, loading, error, view, activeTab>>

\* onClick of a result row: setSelected(...); setActiveTab('viz')
ClickResult ==
  /\ Idle
  /\ activeTab = "query"
  /\ ~loading
  /\ Len(queryResults) > 0
  /\ activeTab' = "viz"
  /\ UNCHANGED <<response, promise, pc, graphData, rawLinks, loading, error, view, queryMode>>

\* ForceGraph2D, rendered under !loading && !error && view === 'graph', replaces
\* source and target of the links of graphData in place by node references.
\* (It also gives the node objects the fields of its simulation, x, y, vx, vy
\* and index; nothing in the page or in MapView reads them back.)
ForceGraphLinks ==
  /\ Idle
  /\ ~loading /\ error = {} /\ view = "graph"
  /\ \E k \in 1..Len(graphData.links) : ~IsRef(graphData.links[k].source)
  /\ graphData' = [graphData EXCEPT !.links =
                     [k \in 1..Len(graphData.links) |->
                        [graphData.links[k] EXCEPT
                           !.source = IF IsRef(@) THEN @ ELSE NodeRef(@),
                           !.target = IF IsRef(@) THEN @ ELSE NodeRef(@)]]]
  /\ UNCHANGED <<response, promise, pc, rawLinks, loading, error, view, activeTab, queryMode>>

\* The promise chain of the mount effect.
NextIngest == FetchOk \/ FetchFail \/ ThenCallback \/ CatchCallback \/ FinallyCallback

Next ==
  \/ NextIngest
  \/ \E key \in {"viz", "query", "arch"} : SetActiveTab(key)
  \/ \E v \in {"graph", "map"} : SetView(v)
  \/ \E key \in QueryMode : SetQueryMode(key)
  \/ ClickResult
  \/ ForceGraphLinks

\* ------------------------------------------------------------------ inputs

SeqsUpTo(S, n) == UNION {[1..k -> S] : k \in 0..n}

HotelTags == "tourism" :> "hotel"
SubwayTags == ("railway" :> "station") @@ ("station" :> "subway")
MuseumTags == "tourism" :> "museum"

\* Raw records with duplicates: three identity keys (two kinds sharing the
\* number 1, two numbers of one kind) and four payloads that differ in class,
\* name and coordinate, one of them without any coordinate.
MaxRecords == 3

RecordKeys == {<<"node", 1>>, <<"way", 1>>, <<"node", 2>>}

RecordPayloads ==
  { [lat |-> 0, lon |-> 0, tags |-> HotelTags @@ ("name" :> "Astor")],
    [center |-> [lat |-> 0, lon |-> 300], tags |-> SubwayTags @@ ("name:en" :> "Bryant Park")],
    [lat |-> 180, lon |-> 240],
    [tags |-> HotelTags @@ ("name" :> "Carlyle")] }

RawRecords == {[type |-> key[1], id |-> key[2]] @@ p : key \in RecordKeys, p \in RecordPayloads}

Init ==
  /\ InitPage
  /\ \/ response \in {[elements |-> els] : els \in SeqsUpTo(RawRecords, MaxRecords)}
     \/ response = [version |-> "0.6"]

Spec == Init /\ [][NextIngest]_vars

\* Places with distinct identity keys: every record is a node whose number is
\* its position in the response, of one of the three classes, at one of five
\* points.  The distances between the points are 1, 50, 276.6, 300 (the 3-4-5
\* triangle 180, 240), 300.8, 316.2, 450, 451, 500 and 501.
MaxPlaces == 3

Points == {<<0, 0>>, <<180, 240>>, <<0, 450>>, <<0, 500>>, <<0, -1>>}

ClassTags == {HotelTags, SubwayTags, MuseumTags}

Place(i, tags, pt) == [type |-> "node", id |-> i, lat |-> pt[1], lon |-> pt[2], tags |-> tags]

InitProximity ==
  /\ InitPage
  /\ \E n \in 0..MaxPlaces : \E f \in [1..n -> ClassTags \X Points] :
        response = [elements |-> [i \in 1..n |-> Place(i, f[i][1], f[i][2])]]

SpecProximity == InitProximity /\ [][NextIngest]_vars

\* A neighbourhood for the ranking: three subway stations and a museum on the
\* equator, and NumHotels hotels, each at one of four spots.  A hotel at
\* longitude 0 has (t, c) = (3, 0), at 500 (1, 1), at 1300 (0, 1), at 1600 (0, 0).
NumHotels == 6

Landmarks ==
  << [type |-> "node", id |-> 101, lat |-> 0, lon |-> 0, tags |-> SubwayTags],
     [type |-> "node", id |-> 102, lat |-> 0, lon |-> 100, tags |-> SubwayTags],
     [type |-> "node", id |-> 103, lat |-> 0, lon |-> 200, tags |-> SubwayTags],
     [type |-> "way", id |-> 104, center |-> [lat |-> 0, lon |-> 900], tags |-> MuseumTags] >>

HotelSpots == {0, 500, 1300, 1600}

HotelsAt(spot) ==
  [i \in DOMAIN spot |-> [type |-> "node", id |-> i, lat |-> 0, lon |-> spot[i], tags |-> HotelTags]]

InitRank ==
  /\ InitPage
  /\ \E spot \in [1..NumHotels -> HotelSpots] :
        response = [elements |-> Landmarks \o HotelsAt(spot)]

SpecRank == InitRank /\ [][NextIngest]_vars

\* The page with its controls, on the same neighbourhood with PageHotels hotels.
PageHotels == 2

InitSmall ==
  /\ InitPage
  /\ \E spot \in [1..PageHotels -> HotelSpots] :
        response = [elements |-> Landmarks \o HotelsAt(spot)]

SpecPage == InitSmall /\ [][Next]_vars

\* The page under the scheduling of the runtime: the request of the mount
\* effect is answered (with an OK status or not), and the reactions of the
\* promise chain are microtasks that run once their promise has settled.
SpecSettles ==
  /\ InitSmall /\ [][Next]_vars
  /\ WF_vars(FetchFail \/ FetchOk)
  /\ WF_vars(ThenCallback) /\ WF_vars(CatchCallback) /\ WF_vars(FinallyCallback)

\* Records for the coordinate resolution: every record is a node whose number
\* is its position in the response, a hotel or a subway station, with one of
\* the shapes a coordinate can take in an OsmElement: a direct coordinate, a
\* centroid, both (at different places), neither, a direct latitude only with
\* a centroid, a direct longitude only without a centroid, a direct coordinate
\* whose latitude is Infinity.
MaxShaped == 3

CoordShapes ==
  { [lat |-> 0, lon |-> 0],
    [center |-> [lat |-> 0, lon |-> 300]],
    [lat |-> 0, lon |-> 100, center |-> [lat |-> 600, lon |-> 900]],
    <<>>,
    [lat |-> 0, center |-> [lat |-> 700, lon |-> 200]],
    [lon |-> 0],
    [lat |-> Infinity, lon |-> 0] }

Shaped(i, tags, shape) == [type |-> "node", id |-> i, tags |-> tags] @@ shape

InitCoords ==
  /\ InitPage
  /\ \E n \in 0..MaxShaped : \E f \in [1..n -> {HotelTags, SubwayTags} \X CoordShapes] :
        response = [elements |-> [i \in 1..n |-> Shaped(i, f[i][1], f[i][2])]]

SpecCoords == InitCoords /\ [][NextIngest]_vars

\* Records for the classifier and the name: nodes at (0, 0) numbered by their
\* position, each with no tag mapping at all or with a tag mapping that holds
\* any choice of the tags the code reads: tourism (hotel, museum), railway
\* (station, halt), station (subway, light_rail), name (empty, Astor) and
\* name:en.  The empty mapping is among them.
MaxTagged == 1

TagChoices ==
  [tourism : {"", "hotel", "museum"}, railway : {"", "station", "halt"},
   station : {"", "subway", "light_rail"}, name : {"-", "", "Astor"},
   nameEn : {"-", "Astor Hotel"}]

\* The tag mapping of a choice: "" (for the name tags "-") leaves the tag out.
TagsFrom(ch) ==
  LET Tag(k, v, none) == IF v = none THEN <<>> ELSE k :> v
  IN Tag("tourism", ch.tourism, "") @@ Tag("railway", ch.railway, "")
     @@ Tag("station", ch.station, "") @@ Tag("name", ch.name, "-")
     @@ Tag("name:en", ch.nameEn, "-")

TaggedRecords(i) ==
  {[type |-> "node", id |-> i, lat |-> 0, lon |-> 0]}
    \cup {[type |-> "node", id |-> i, lat |-> 0, lon |-> 0, tags |-> TagsFrom(ch)] : ch \in TagChoices}

InitTags ==
  /\ InitPage
  /\ \E n \in 0..MaxTagged : \E els \in [1..n -> UNION {TaggedRecords(i) : i \in 1..n}] :
        /\ \A i \in 1..n : els[i].id = i
        /\ response = [elements |-> els]

SpecTags == InitTags /\ [][NextIngest]_vars

\* ================================================================== claims

\* The result of a derivation run: the value buildNycGraph resolved with.
Derived == promise.state = "fulfilled"
Entities == promise.value.nodes
Edges == promise.value.links

EntityIx == 1..Len(Entities)
EdgeIx == 1..Len(Edges)

\* The square of the distance in metres between two entities, and the test
\* "at most r metres apart" stated on it.
SquareDist(a, b) == (a.lat - b.lat) * (a.lat - b.lat) + (a.lon - b.lon) * (a.lon - b.lon)
Apart(a, b, r) == SquareDist(a, b) <= r * r

HasEdge(a, b, label) ==
  \E k \in EdgeIx : Edges[k].source = a.id /\ Edges[k].target = b.id /\ Edges[k].label = label

IncidentEdges(id) == {k \in EdgeIx : Edges[k].source = id \/ Edges[k].target = id}

C3_EdgeTyping ==
  Derived =>
    \A k \in EdgeIx :
      /\ \E i \in EntityIx : Entities[i].id = Edges[k].source /\ Entities[i].type = "Hotel"
      /\ \A i \in EntityIx : Entities[i].id = Edges[k].source => Entities[i].type = "Hotel"
      /\ \E j \in EntityIx : Entities[j].id = Edges[k].target
      /\ \A j \in EntityIx :
            Entities[j].id = Edges[k].target =>
              Entities[j].type = (IF Edges[k].label = "TRANSIT_ACCESS" THEN "Subway" ELSE "Attraction")
      /\ Edges[k].label \in {"TRANSIT_ACCESS", "WALKABLE_TO"}

\* A run with an edge of each label, and with a Subway and an Attraction 50 m
\* apart that no edge joins.
C3_Witness ==
  /\ Derived
  /\ \E k, l \in EdgeIx : Edges[k].label = "TRANSIT_ACCESS" /\ Edges[l].label = "WALKABLE_TO"
  /\ \E i, j \in EntityIx :
       /\ Entities[i].type = "Subway" /\ Entities[j].type = "Attraction"
       /\ Apart(Entities[i], Entities[j], 300)

\* C4: after a derivation run the degree of every entity is the number of edges
\* that have its id as source or as target, 0 when there is none.
C4_DegreeConsistency ==
  Derived =>
    \A i \in EntityIx : Entities[i].degree = Cardinality(IncidentEdges(Entities[i].id))

\* A run with an entity of degree 2 and an entity without incident edge, whose
\* degree is 0.
C4_Witness ==
  /\ Derived
  /\ \E i, j \in EntityIx :
       /\ Cardinality(IncidentEdges(Entities[i].id)) = 2 /\ Entities[i].degree = 2
       /\ IncidentEdges(Entities[j].id) = {} /\ Entities[j].degree = 0

\* ------------------------------------------------------------- the ranking

\* What the ranking reads, and its result in each mode.
HotelIx == {i \in 1..Len(graphData.nodes) : graphData.nodes[i].type = "Hotel"}
Results(mode) == QueryResultsFor(graphData.nodes, rawLinks, mode)
ReturnedIds(mode) == {Results(mode)[k].hotel.id : k \in 1..Len(Results(mode))}

\* t and c of an entity, counted on the edge snapshot.
SnapshotEdges(id, label) ==
  {k \in 1..Len(rawLinks) :
     (rawLinks[k].source = id \/ rawLinks[k].target = id) /\ rawLinks[k].label = label}
TransitOf(id) == Cardinality(SnapshotEdges(id, "TRANSIT_ACCESS"))
CultureOf(id) == Cardinality(SnapshotEdges(id, "WALKABLE_TO"))

\* The weights of t and of c in the five weighted modes, and the score the
\* specification gives a Hotel in every mode.
LinearModes == {"transit", "culture", "balanced", "hub", "corridor"}
WeightT(mode) == IF mode = "transit" THEN 2 ELSE IF mode = "hub" THEN 3 ELSE 1
WeightC(mode) == IF mode = "culture" THEN 2 ELSE IF mode = "corridor" THEN 3 ELSE 1
SpecScore(mode, id) ==
  IF mode = "connected"
  THEN (IF TransitOf(id) = 0 \/ CultureOf(id) = 0 THEN 0 ELSE TransitOf(id) + CultureOf(id))
  ELSE WeightT(mode) * TransitOf(id) + WeightC(mode) * CultureOf(id)

\* C5: in every mode the ranking returns Hotel entities of the entity set, each
\* at most once; a Hotel with a positive score that is not returned scores no
\* more than any returned one; with fewer than 5 rows returned, no Hotel with a
\* positive score is left out.
C5_TopHotels ==
  \A mode \in QueryMode :
    LET rows == Results(mode)
        returned == {rows[k].hotel.id : k \in 1..Len(rows)}
        returnedScores == {SpecScore(mode, id) : id \in returned}
        leftOut == {i \in HotelIx : graphData.nodes[i].id \notin returned}
        leftOutScores == {SpecScore(mode, graphData.nodes[i].id) : i \in leftOut} \ {0}
    IN /\ \A k \in 1..Len(rows) : \E i \in HotelIx : rows[k].hotel = graphData.nodes[i]
       /\ Cardinality(returned) = Len(rows)
       /\ \A x \in leftOutScores : \A y \in returnedScores : x <= y
       /\ Len(rows) < 5 => leftOutScores = {}

\* A mode in which 5 rows are returned and a Hotel that scores less than all of
\* them is cut off, and a mode in which fewer than 5 rows are returned.
C5_Witness ==
  /\ \E mode \in QueryMode :
       /\ Len(Results(mode)) = 5
       /\ \E i \in HotelIx :
            /\ graphData.nodes[i].id \notin ReturnedIds(mode)
            /\ SpecScore(mode, graphData.nodes[i].id) > 0
            /\ \A id \in ReturnedIds(mode) : SpecScore(mode, graphData.nodes[i].id) < SpecScore(mode, id)
  /\ \E mode \in QueryMode : Len(Results(mode)) \in 1..4

\* C6: in every mode the ranking returns at most 5 rows, their scores never
\* increase along the sequence, and every score is positive.
C6_CapAndOrder ==
  \A mode \in QueryMode :
    LET rows == Results(mode)
    IN /\ Len(rows) <= 5
       /\ \A k \in 1..(Len(rows) - 1) : rows[k].score >= rows[k + 1].score
       /\ \A k \in 1..Len(rows) : rows[k].score > 0

\* More than 5 Hotels have a positive score, 5 rows are returned, and the first
\* scores more than the last.
C6_Witness ==
  \E mode \in QueryMode :
    /\ Cardinality({i \in HotelIx : SpecScore(mode, graphData.nodes[i].id) > 0}) > 5
    /\ Len(Results(mode)) = 5
    /\ Results(mode)[1].score > Results(mode)[5].score

\* C7: in the modes transit, culture, balanced, hub and corridor the row of a
\* Hotel carries t and c as counted on the edge snapshot and the score 2t+c,
\* 2c+t, t+c, 3t+c, 3c+t; so do the rows the ranking returns.
C7_LinearScores ==
  \A mode \in LinearModes :
    LET rows == Results(mode)
    IN /\ \A i \in HotelIx :
            LET row == ScoreRow(graphData.nodes[i], rawLinks, mode)
            IN /\ row.transitCount = TransitOf(graphData.nodes[i].id)
               /\ row.cultureCount = CultureOf(graphData.nodes[i].id)
               /\ row.score = SpecScore(mode, graphData.nodes[i].id)
       /\ \A k \in 1..Len(rows) :
            /\ rows[k].transitCount = TransitOf(rows[k].hotel.id)
            /\ rows[k].cultureCount = CultureOf(rows[k].hotel.id)
            /\ rows[k].score = SpecScore(mode, rows[k].hotel.id)

\* A Hotel with one TRANSIT_ACCESS and one WALKABLE_TO edge is returned in mode
\* transit with the score 3, and in mode corridor with the score 4.
C7_Witness ==
  \E k \in 1..Len(Results("transit")) : \E l \in 1..Len(Results("corridor")) :
    /\ TransitOf(Results("transit")[k].hotel.id) = 1
    /\ CultureOf(Results("transit")[k].hotel.id) = 1
    /\ Results("transit")[k].score = 3
    /\ Results("corridor")[l].hotel.id = Results("transit")[k].hotel.id
    /\ Results("corridor")[l].score = 4

\* C8: in mode connected the score of a Hotel is t+c when t > 0 and c > 0 and 0
\* otherwise, and no returned Hotel has t = 0 or c = 0.
C8_ConnectedGate ==
  LET rows == Results("connected")
  IN /\ \A i \in HotelIx :
          ScoreRow(graphData.nodes[i], rawLinks, "connected").score
            = SpecScore("connected", graphData.nodes[i].id)
     /\ \A k \in 1..Len(rows) :
          /\ TransitOf(rows[k].hotel.id) > 0
          /\ CultureOf(rows[k].hotel.id) > 0
          /\ rows[k].score = TransitOf(rows[k].hotel.id) + CultureOf(rows[k].hotel.id)

\* A Hotel with t = 3 and c = 0 that is missing from the non-empty connected
\* result and is returned in mode transit with the score 6.
C8_Witness ==
  /\ Len(Results("connected")) > 0
  /\ \E k \in 1..Len(Results("transit")) :
       /\ TransitOf(Results("transit")[k].hotel.id) = 3
       /\ CultureOf(Results("transit")[k].hotel.id) = 0
       /\ Results("transit")[k].score = 6
       /\ Results("transit")[k].hotel.id \notin ReturnedIds("connected")
       /\ ScoreRow(Results("transit")[k].hotel, rawLinks, "connected").score = 0

\* ------------------------------------------------------ the entity builder

Records == Elements(response)
RecordIx == 1..Len(Records)

\* The identity key of a record, and the entity id the key stands for.
KeyOf(r) == <<r.type, r.id>>
KeyId(key) == key[1] \o "-" \o ToString(key[2])

\* A record has a usable coordinate when a latitude and a longitude can be had
\* from its direct coordinate or its centroid.
HasPart(r, f) == f \in DOMAIN r \/ ("center" \in DOMAIN r /\ f \in DOMAIN r.center)
Usable(r) == HasPart(r, "lat") /\ HasPart(r, "lon")

Carrying(key) == {i \in RecordIx : KeyOf(Records[i]) = key}
UsableCarrying(key) == {i \in Carrying(key) : Usable(Records[i])}
Least(S) == CHOOSE i \in S : \A j \in S : i <= j

EntitiesWithId(id) == {i \in EntityIx : Entities[i].id = id}

\* The entity is built from the record: its class, name and coordinates.
BuiltFrom(n, r) ==
  /\ n.type = classifyOsmElement(TagsOf(r))
  /\ n.name = NameOf(r)
  /\ {n.lat} = ResolveLat(r)
  /\ {n.lon} = ResolveLon(r)

\* C9 as stated: the entity of a key is built from the first record of the
\* sequence that carries the key.
C9_FirstRecordWins ==
  Derived =>
    \A key \in {KeyOf(Records[i]) : i \in RecordIx} :
      \A e \in EntitiesWithId(KeyId(key)) : BuiltFrom(Entities[e], Records[Least(Carrying(key))])

\* C9 as amended: the entity of a key is built from the first record with a
\* usable coordinate that carries the key; there is exactly one entity for
\* each key that some usable record carries and none for the other keys, so
\* every other record is dropped.
C9_FirstUsableRecordWins ==
  Derived =>
    /\ \A key \in {KeyOf(Records[i]) : i \in RecordIx} :
         IF UsableCarrying(key) = {}
         THEN EntitiesWithId(KeyId(key)) = {}
         ELSE /\ Cardinality(EntitiesWithId(KeyId(key))) = 1
              /\ \A e \in EntitiesWithId(KeyId(key)) :
                   BuiltFrom(Entities[e], Records[Least(UsableCarrying(key))])
    /\ \A e \in EntityIx : \E i \in RecordIx : Entities[e].id = KeyId(KeyOf(Records[i]))

\* Three records with one key: the first has no coordinate, the second and the
\* third have one and differ in class, name and coordinates; the entity is
\* built from the second.
C9_Witness ==
  /\ Derived
  /\ \E key \in {KeyOf(Records[i]) : i \in RecordIx} :
       /\ Carrying(key) = {1, 2, 3}
       /\ UsableCarrying(key) = {2, 3}
       /\ classifyOsmElement(TagsOf(Records[2])) # classifyOsmElement(TagsOf(Records[3]))
       /\ NameOf(Records[2]) # NameOf(Records[3])
       /\ ResolveLon(Records[2]) # ResolveLon(Records[3])
       /\ \E e \in EntityIx : Entities[e].id = KeyId(key) /\ BuiltFrom(Entities[e], Records[2])

\* C10: no two entities of a derived entity set have the same id, and there are
\* as many entities as identity keys (kind, number) among the records with a
\* usable coordinate: records of one kind and number give one entity, records
\* of different kinds with the same number give different entities.
C10_UniqueIds ==
  Derived =>
    /\ \A i, j \in EntityIx : Entities[i].id = Entities[j].id => i = j
    /\ Len(Entities) = Cardinality({KeyOf(Records[i]) : i \in {j \in RecordIx : Usable(Records[j])}})
    /\ \A i, j \in RecordIx :
         (Usable(Records[i]) /\ Usable(Records[j]) /\ KeyOf(Records[i]) # KeyOf(Records[j]))
           => \E a, b \in EntityIx :
                /\ a # b
                /\ Entities[a].id = KeyId(KeyOf(Records[i]))
                /\ Entities[b].id = KeyId(KeyOf(Records[j]))

\* Two records of kind node with the number 1 and one of kind way with the
\* number 1, each with a coordinate: two entities.
C10_Witness ==
  /\ Derived
  /\ Len(Records) = 3
  /\ \A i \in RecordIx : Usable(Records[i]) /\ Records[i].id = 1
  /\ KeyOf(Records[1]) = KeyOf(Records[2])
  /\ Records[3].type # Records[1].type
  /\ Len(Entities) = 2

\* ------------------------------------------------- coordinate resolution

\* The direct point coordinate and the centroid of a record, when it has them.
HasDirect(r) == "lat" \in DOMAIN r /\ "lon" \in DOMAIN r
HasCentroid(r) == "center" \in DOMAIN r /\ "lat" \in DOMAIN r.center /\ "lon" \in DOMAIN r.center

EdgesAt(id) == {k \in EdgeIx : Edges[k].source = id \/ Edges[k].target = id}

\* C11: a record with a direct point coordinate becomes an entity at that
\* coordinate; a record without one that has a centroid becomes an entity at
\* the centroid; a record with neither gives no entity and no edge, the run
\* still ends without an error and the records after it are processed (each
\* of them is again subject to the same rule).
C11_DirectElseCentroid ==
  /\ promise.state = "rejected" => promise.reason \in {HttpError(429), HttpError(504)}
  /\ Derived =>
       \A i \in RecordIx :
         LET r == Records[i]
             es == EntitiesWithId(KeyId(KeyOf(r)))
         IN IF HasDirect(r)
            THEN \E e \in es : Entities[e].lat = r.lat /\ Entities[e].lon = r.lon
            ELSE IF HasCentroid(r)
                 THEN \E e \in es : Entities[e].lat = r.center.lat /\ Entities[e].lon = r.center.lon
                 ELSE es = {} /\ EdgesAt(KeyId(KeyOf(r))) = {}

\* C12: every entity of a derived entity set has a finite lat and a finite
\* lon, and a record whose resolved lat or lon is missing or not finite has no
\* entity.
C12_FiniteCoordinates ==
  Derived =>
    /\ \A e \in EntityIx : IsFinite(Entities[e].lat) /\ IsFinite(Entities[e].lon)
    /\ \A i \in RecordIx :
         LET lat == ResolveLat(Records[i])
             lon == ResolveLon(Records[i])
         IN (lat = {} \/ lon = {} \/ \E x \in lat \cup lon : ~IsFinite(x))
              => EntitiesWithId(KeyId(KeyOf(Records[i]))) = {}

\* ------------------------------------------------- classification and name

\* The value of a tag of a record: {} when the record has no tag mapping or
\* the mapping has no such tag.
TagOf(r, k) == IF "tags" \in DOMAIN r /\ k \in DOMAIN r.tags THEN {r.tags[k]} ELSE {}

\* C13: every record with a coordinate, whatever its tag mapping (none, empty,
\* any tags), gets an entity, and the class of the entity of record i is Hotel
\* when the lodging tag is present, otherwise Subway when the rail-station tag
\* and the subway sub-kind tag are both present, otherwise Attraction; the run
\* never fails on a tag mapping.
C13_ClassifierTotal ==
  /\ promise.state = "rejected" => promise.reason \in {HttpError(429), HttpError(504)}
  /\ Derived =>
       /\ Len(Entities) = Len(Records)
       /\ \A i \in RecordIx :
            LET r == Records[i]
            IN Entities[i].type =
                 IF TagOf(r, "tourism") = {"hotel"} THEN "Hotel"
                 ELSE IF TagOf(r, "railway") = {"station"} /\ TagOf(r, "station") = {"subway"}
                      THEN "Subway"
                      ELSE "Attraction"

\* A record with the lodging tag and both subway tags is a Hotel.
C13_Witness ==
  /\ Derived
  /\ \E i \in RecordIx :
       /\ TagOf(Records[i], "tourism") = {"hotel"}
       /\ TagOf(Records[i], "railway") = {"station"}
       /\ TagOf(Records[i], "station") = {"subway"}
       /\ Entities[i].type = "Hotel"

\* C14: the name of the entity of record i is the name tag when the record has
\* one; the name:en tag when it has no name tag and has name:en; "OSM " and
\* the number of the record when it has neither.
C14_NameFallback ==
  Derived =>
    \A i \in RecordIx :
      LET r == Records[i]
      IN /\ TagOf(r, "name") # {} => {Entities[i].name} = TagOf(r, "name")
         /\ TagOf(r, "name") = {} /\ TagOf(r, "name:en") # {}
              => {Entities[i].name} = TagOf(r, "name:en")
         /\ TagOf(r, "name") = {} /\ TagOf(r, "name:en") = {}
              => Entities[i].name = "OSM " \o ToString(r.id)

\* A record with both name tags is named by the name tag.
C14_Witness ==
  /\ Derived
  /\ \E i \in RecordIx :
       /\ TagOf(Records[i], "name") = {"Astor"}
       /\ TagOf(Records[i], "name:en") = {"Astor Hotel"}
       /\ Entities[i].name = "Astor"

\* ------------------------------------------------------------ the edge set

\* C15: in the edge set of every derivation run, whatever the records
\* (repeated keys included), no two edges have the same source, target and
\* label.
C15_UniqueTriples ==
  Derived =>
    \A k, l \in EdgeIx :
      (Edges[k].source = Edges[l].source /\ Edges[k].target = Edges[l].target
         /\ Edges[k].label = Edges[l].label) => k = l

\* Two usable records with the key of a hotel, and an edge from that hotel.
C15_Witness ==
  /\ Derived
  /\ \E i, j \in RecordIx :
       /\ i # j /\ KeyOf(Records[i]) = KeyOf(Records[j])
       /\ Usable(Records[i]) /\ Usable(Records[j])
       /\ classifyOsmElement(TagsOf(Records[i])) = "Hotel"
       /\ classifyOsmElement(TagsOf(Records[j])) = "Hotel"
       /\ \E k \in EdgeIx : Edges[k].source = KeyId(KeyOf(Records[i]))

EntityIds == {Entities[e].id : e \in EntityIx}

\* C16: in every derivation run the source and the target of every edge are
\* ids of entities of the entity set of that run.
C16_NoDanglingEdge ==
  Derived => \A k \in EdgeIx : Edges[k].source \in EntityIds /\ Edges[k].target \in EntityIds

\* A run with a TRANSIT_ACCESS edge and a WALKABLE_TO edge.
C16_Witness ==
  /\ Derived
  /\ \E k, l \in EdgeIx : Edges[k].label = "TRANSIT_ACCESS" /\ Edges[l].label = "WALKABLE_TO"

\* ------------------------------------------------------- degree centrality

\* The degree computation (a fresh degreeMap filled from the edges, then the
\* degrees written) run once more on the entities and edges of a run.
DegreesAgain == WriteDegrees(Entities, BuildDegreeMap(Edges, 1, <<>>))

\* C17: running the degree computation a second time on the entity set and
\* the edge set of a derivation run leaves the degree of every entity as the
\* first run set it.
C17_DegreeIdempotent ==
  Derived => \A e \in EntityIx : DegreesAgain[e].degree = Entities[e].degree

\* A run with an entity of degree 2 and an entity of degree 1, which the
\* second computation leaves unchanged.
C17_Witness ==
  /\ Derived
  /\ \E a, b \in EntityIx : Entities[a].degree = 2 /\ Entities[b].degree = 1
  /\ DegreesAgain = Entities

\* ------------------------------------------------- the page and the ranking

\* The derivation result has been published to the page.
Published == Derived /\ pc \in {"finally", "done"}

\* C18: a ranking invocation (a step that sets the mode, after which the memo
\* is computed again) leaves the entity set, the rendered edges and the edge
\* snapshot as they are, and what it returns is what the ranking returns for
\* the new mode on the entities and edges of the derivation run, whichever
\* invocations came before it.
C18_RankingPure ==
  [][queryMode' # queryMode =>
       /\ graphData' = graphData
       /\ rawLinks' = rawLinks
       /\ \E mode \in QueryMode :
            /\ mode = queryMode'
            /\ QueryResultsFor(graphData.nodes, rawLinks, mode)
                 = QueryResultsFor(Entities, Edges, mode)]_vars

\* A mode other than the initial one has been chosen, and its result differs
\* from the result of the initial mode.
C18_Witness ==
  /\ Published
  /\ queryMode # "balanced"
  /\ Len(queryResults) > 0
  /\ queryResults # QueryResultsFor(graphData.nodes, rawLinks, "balanced")

\* The rendering layer has rewritten the endpoints of the rendered edges.
Rewritten == \E k \in 1..Len(graphData.links) : IsRef(graphData.links[k].source)

\* C19: once the result is published, whatever the rendering layer has done to
\* the rendered edges, source and target of every edge of the snapshot are the
\* string ids the derivation gave them, and the ranking returns for every mode
\* what it returns on the edges of the derivation.
C19_PristineSnapshot ==
  Published =>
    /\ Len(rawLinks) = Len(Edges)
    /\ \A k \in 1..Len(rawLinks) :
         /\ rawLinks[k].source = Edges[k].source /\ ~IsRef(rawLinks[k].source)
         /\ rawLinks[k].target = Edges[k].target /\ ~IsRef(rawLinks[k].target)
    /\ queryResults = QueryResultsFor(Entities, Edges, queryMode)
    /\ \A mode \in QueryMode :
         QueryResultsFor(graphData.nodes, rawLinks, mode) = QueryResultsFor(Entities, Edges, mode)

\* The rendered edges have been rewritten and the ranking is not empty.
C19_Witness ==
  /\ Published
  /\ Rewritten
  /\ \A k \in 1..Len(graphData.links) : graphData.links[k].source # rawLinks[k].source
  /\ Len(queryResults) > 0

\* The map view is rendered.
MapRendered == ~loading /\ error = {} /\ view = "map"

PageIds == {graphData.nodes[k].id : k \in 1..Len(graphData.nodes)}

\* C20: in every state in which the ranking is not empty or the map view is
\* rendered, the entity set and the edge snapshot that are read are those of
\* one derivation run, and every endpoint of every edge of the snapshot is the
\* id of an entity of the entity set.
C20_AtomicPublish ==
  (Len(queryResults) > 0 \/ MapRendered) =>
    /\ \A k \in 1..Len(rawLinks) : rawLinks[k].source \in PageIds /\ rawLinks[k].target \in PageIds
    /\ Len(rawLinks) > 0 \/ Len(graphData.nodes) > 0 =>
         Derived /\ graphData.nodes = Entities /\ rawLinks = Edges

\* The map view is rendered with edges, and the ranking is not empty.
C20_Witness ==
  /\ MapRendered
  /\ Len(rawLinks) > 0
  /\ Len(queryResults) > 0

\* ------------------------------------------------------------ the failures

EmptyGraph == [nodes |-> <<>>, links |-> <<>>]

\* C21: when the upstream answers with a status that is not OK, the promise of
\* the derivation is rejected without a derivation result, the published
\* entity set, edge list and edge snapshot stay empty in every later state,
\* and once the rejection is handled the error is the one message of the
\* failure; an error is never set otherwise.
C21_HttpFailure ==
  /\ promise.state = "rejected" =>
       /\ DOMAIN promise = {"state", "reason"}
       /\ graphData = EmptyGraph /\ rawLinks = <<>>
       /\ pc \in {"finally", "done"} => error = {promise.reason}
  /\ error # {} => promise.state = "rejected"

\* The failure has been handled and loading has ended.
C21_Witness ==
  /\ pc = "done" /\ ~loading
  /\ promise.state = "rejected"
  /\ error = {HttpError(504)}
  /\ graphData = EmptyGraph /\ rawLinks = <<>>

\* C22: whenever the entity set of the page is empty or its edge snapshot is
\* empty, the ranking is the empty list in every mode; a derivation that gives
\* no entity or no edge sets no error.
C22_EmptyRanking ==
  /\ (Len(graphData.nodes) = 0 \/ Len(rawLinks) = 0) =>
       \A mode \in QueryMode : QueryResultsFor(graphData.nodes, rawLinks, mode) = <<>>
  /\ Published => error = {}

\* A published entity set with a Hotel and no edge, ranked empty.
C22_Witness ==
  /\ Published /\ pc = "done"
  /\ \E k \in 1..Len(graphData.nodes) : graphData.nodes[k].type = "Hotel"
  /\ Len(graphData.nodes) >= 2
  /\ rawLinks = <<>>
  /\ queryResults = <<>>

\* ------------------------------------------------------- the mode controls

\* Some mode has a non-empty ranking on what the page holds.
SomeModeRanks == \E mode \in QueryMode : QueryResultsFor(graphData.nodes, rawLinks, mode) # <<>>

\* C23: after loading has finished, on the query tab, whenever some mode has a
\* non-empty ranking (in particular when the selected mode connected matches
\* no Hotel), selecting each of the six modes is enabled.
C23_ModeControlsAvailable ==
  (pc = "done" /\ ~loading /\ activeTab = "query" /\ SomeModeRanks) =>
    \A key \in QueryMode : ENABLED SetQueryMode(key)

\* ------------------------------------------------- the coordinate, again

\* C24: the lat and the lon of every entity are the two parts of one
\* coordinate of a record with its key: both of the direct point coordinate
\* or both of the centroid.
C24_SameCoordinate ==
  Derived =>
    \A e \in EntityIx : \E i \in RecordIx :
      LET r == Records[i]
      IN /\ KeyId(KeyOf(r)) = Entities[e].id
         /\ \/ HasDirect(r) /\ Entities[e].lat = r.lat /\ Entities[e].lon = r.lon
            \/ HasCentroid(r) /\ Entities[e].lat = r.center.lat /\ Entities[e].lon = r.center.lon

\* ------------------------------------------------- skipped records and keys

\* The position of the first record with a usable coordinate that has the
\* key of the entity id (0 when there is none).
FirstUsable(id) ==
  LET S == {i \in RecordIx : Usable(Records[i]) /\ KeyId(KeyOf(Records[i])) = id}
  IN IF S = {} THEN 0 ELSE Least(S)

\* C25: there are as many entities as distinct identity keys among the records
\* with a usable coordinate (a record without one, also when it comes first,
\* does not take the key away from a later record), and the entities are in
\* the order of the first usable record of their keys.
C25_SkippedKeepsKeyFree ==
  Derived =>
    /\ Len(Entities) = Cardinality({KeyOf(Records[i]) : i \in {j \in RecordIx : Usable(Records[j])}})
    /\ \A a \in EntityIx : FirstUsable(Entities[a].id) > 0
    /\ \A a, b \in EntityIx : a < b => FirstUsable(Entities[a].id) < FirstUsable(Entities[b].id)

\* A record without a coordinate, a usable record of another key, then a
\* usable record with the key of the first: two entities, the third record's
\* after the second's.
C25_Witness ==
  /\ Derived
  /\ Len(Records) = 3
  /\ ~Usable(Records[1]) /\ Usable(Records[2]) /\ Usable(Records[3])
  /\ KeyOf(Records[1]) = KeyOf(Records[3]) /\ KeyOf(Records[2]) # KeyOf(Records[1])
  /\ Len(Entities) = 2
  /\ Entities[1].id = KeyId(KeyOf(Records[2])) /\ Entities[2].id = KeyId(KeyOf(Records[3]))

\* ------------------------------------------------------ degree and ranking

\* C26: once the result is published, the degree of every Hotel is the t plus
\* the c that the ranking counts for it on the edge snapshot, and its score in
\* mode balanced is its degree.
C26_BalancedIsDegree ==
  Published =>
    \A i \in HotelIx :
      LET hotel == graphData.nodes[i]
          row == ScoreRow(hotel, rawLinks, "balanced")
      IN /\ hotel.degree = CountIncident(rawLinks, hotel.id, "TRANSIT_ACCESS")
                             + CountIncident(rawLinks, hotel.id, "WALKABLE_TO")
         /\ hotel.degree = row.transitCount + row.cultureCount
         /\ row.score = hotel.degree

\* Hotels of degree 3 (three stations), 2 (a station and the museum) and 0.
C26_Witness ==
  /\ Published
  /\ \E i, j, k \in HotelIx :
       /\ graphData.nodes[i].degree = 3 /\ graphData.nodes[j].degree = 2
       /\ graphData.nodes[k].degree = 0
       /\ ScoreRow(graphData.nodes[i], rawLinks, "balanced").score = 3
       /\ ScoreRow(graphData.nodes[j], rawLinks, "balanced").cultureCount = 1

\* The Hotels with a positive score in a mode, and those with an edge of the
\* snapshot at them.
PositiveIn(mode) == {i \in HotelIx : ScoreRow(graphData.nodes[i], rawLinks, mode).score > 0}
WithAnEdge ==
  {i \in HotelIx : \E k \in 1..Len(rawLinks) :
     rawLinks[k].source = graphData.nodes[i].id \/ rawLinks[k].target = graphData.nodes[i].id}

\* C27: once the result is published, in each of the modes transit, culture,
\* balanced, hub and corridor the Hotels with a positive score are the Hotels
\* with an edge at them, the five modes return lists of one length, and every
\* Hotel returned in mode connected has a positive score in each of the five.
C27_SamePositiveSet ==
  Published =>
    LET withEdge == WithAnEdge
        connected == Results("connected")
    IN /\ \A mode \in LinearModes : PositiveIn(mode) = withEdge
       /\ LET length == Len(Results("balanced"))
          IN \A mode \in LinearModes : Len(Results(mode)) = length
       /\ \A k \in 1..Len(connected) : \A mode \in LinearModes :
            ScoreRow(connected[k].hotel, rawLinks, mode).score > 0

\* A Hotel with stations only and a Hotel with the museum only, fewer than
\* five Hotels with an edge, and a Hotel returned in mode connected.
C27_Witness ==
  /\ Published
  /\ \E i, j \in WithAnEdge :
       /\ ScoreRow(graphData.nodes[i], rawLinks, "hub").cultureCount = 0
       /\ ScoreRow(graphData.nodes[j], rawLinks, "hub").transitCount = 0
  /\ Len(Results("hub")) = 4 /\ Len(Results("corridor")) = 4
  /\ Len(Results("connected")) = 1

\* The position of an entity in the entity sequence of the page.
NodePos(id) == CHOOSE i \in 1..Len(graphData.nodes) : graphData.nodes[i].id = id

\* C28: in every mode, two returned Hotels with equal scores are in the order
\* of the entity sequence, and a Hotel with a positive score that is not
\* returned comes later in the entity sequence than every returned Hotel with
\* the same score.
C28_TiesKeepOrder ==
  Published =>
    \A mode \in QueryMode :
      LET rows == Results(mode)
          returned == {rows[k].hotel.id : k \in 1..Len(rows)}
      IN /\ \A k, l \in 1..Len(rows) :
              (k < l /\ rows[k].score = rows[l].score)
                => NodePos(rows[k].hotel.id) < NodePos(rows[l].hotel.id)
         /\ \A i \in HotelIx :
              LET row == ScoreRow(graphData.nodes[i], rawLinks, mode)
              IN (row.score > 0 /\ row.hotel.id \notin returned)
                   => \A k \in 1..Len(rows) :
                        rows[k].score = row.score => NodePos(rows[k].hotel.id) < i

\* Six Hotels with one score: the first five are returned in their order and
\* the sixth is cut off.
C28_Witness ==
  /\ Published
  /\ LET rows == Results("balanced")
     IN /\ Len(rows) = 5
        /\ \A k \in 1..5 : rows[k].score = rows[1].score
        /\ \E i \in HotelIx :
             /\ ScoreRow(graphData.nodes[i], rawLinks, "balanced").score = rows[1].score
             /\ \A k \in 1..5 : rows[k].hotel.id # graphData.nodes[i].id

\* ------------------------------------------------------------- liveness

\* The graph of the page is the derivation result: its nodes and the edge
\* snapshot are those of the run, and its links are the links of the run with
\* endpoints that are the ids or, after rendering, references to their nodes.
GraphIsResult ==
  /\ Derived
  /\ graphData.nodes = Entities
  /\ rawLinks = Edges
  /\ Len(graphData.links) = Len(Edges)
  /\ \A k \in EdgeIx :
       /\ graphData.links[k].source \in {Edges[k].source, NodeRef(Edges[k].source)}
       /\ graphData.links[k].target \in {Edges[k].target, NodeRef(Edges[k].target)}
       /\ graphData.links[k].label = Edges[k].label

\* Loading has ended on exactly one of the two outcomes: the error is set and
\* the graph and the edge snapshot are empty, or there is no error and the
\* graph is the derivation result.
Settled ==
  \/ error # {} /\ graphData = EmptyGraph /\ rawLinks = <<>>
  \/ error = {} /\ GraphIsResult

\* C29: loading eventually becomes false; no step makes it true again; and
\* every step that ends with loading false ends on exactly one of the two
\* outcomes (loading is true initially, so this covers every state in which
\* it is false).
C29_IngestionSettles ==
  /\ <>(~loading)
  /\ [][(~loading => ~loading') /\ (~loading' => Settled')]_vars

\* Loading has ended on a derivation result that the rendering layer has
\* rewritten.
C29_Witness ==
  /\ ~loading /\ pc = "done"
  /\ error = {}
  /\ GraphIsResult
  /\ Rewritten

\* ------------------------------------------------------------ degree sums

\* The sum of the degrees of the entities of a sequence, from entity i on.
RECURSIVE SumDegrees(_, _)
SumDegrees(nodes, i) ==
  IF i > Len(nodes) THEN 0 ELSE nodes[i].degree + SumDegrees(nodes, i + 1)

HotelEntities == SelectSeq(Entities, LAMBDA n : n.type = "Hotel")
OtherEntities == SelectSeq(Entities, LAMBDA n : n.type # "Hotel")

\* C30: after a derivation run the degrees of all entities add up to twice the
\* number of edges, and the degrees of the Hotels add up to the number of
\* edges, as do the degrees of the Subways and Attractions.
C30_DegreeSums ==
  Derived =>
    /\ SumDegrees(Entities, 1) = 2 * Len(Edges)
    /\ SumDegrees(HotelEntities, 1) = Len(Edges)
    /\ SumDegrees(OtherEntities, 1) = Len(Edges)

\* A run with at least four edges, some at a Subway and some at an Attraction.
C30_Witness ==
  /\ Derived
  /\ Len(Edges) >= 4
  /\ \E k, l \in EdgeIx : Edges[k].label = "TRANSIT_ACCESS" /\ Edges[l].label = "WALKABLE_TO"
  /\ SumDegrees(HotelEntities, 1) = Len(Edges)

====
